---- MODULE Spec2Model ----
(***************************************************************************)
(* TastyMeals API: the cart / order / loyalty-points engine.               *)
(*                                                                         *)
(* The model follows the customer-facing request handlers of               *)
(* customerend/views.py together with the signal receivers of              *)
(* customerend/signals.py and customerend/myutils.py.  The project runs    *)
(* Django in autocommit mode (settings.py sets no ATOMIC_REQUESTS and no   *)
(* handler opens a transaction), so every ORM query of a handler is one    *)
(* atomic step and the queries of concurrent requests interleave freely.   *)
(* The only multi-query atomic unit is the transaction that                *)
(* Collector.delete opens around a DELETE and its post_delete receivers.   *)
(*                                                                         *)
(* One customer (one cart, one loyalty account) is modelled; the workers   *)
(* are concurrent requests of that customer.  Money is in whole shillings; *)
(* the prices and percentages below keep every discounted price integral.  *)
(***************************************************************************)
EXTENDS Integers, Sequences, FiniteSets, Bags, TLC

(***************************************************************************)
(* Bounds of the model.                                                    *)
(***************************************************************************)
\* requests the workers may start in one run, all workers together
MaxCalls == 3
\* order ids 1..MaxOrders (ids 1 and 2 exist initially in the loyalty runs)
MaxOrders == 3
\* largest quantity a request asks for
MaxQty == 2
\* cart-line ids 1..MaxLines
MaxLines == 3
\* catalog changes the cafe admin may make
MaxAdmin == 1
\* total of the order the customer paid before the loyalty runs start
SeedTotal == 5000
\* the clock runs over the days 0..MaxTime
MaxTime == 2

Workers == {"w1", "w2"}
OrderIds == 1..MaxOrders
LineIds == 1..MaxLines

\* dining tables known to the cafe, and the two bad inputs of PaymentView
Tables == {"t1"}
NoTable == "none"
BadTable == "unknown"
TableInputs == Tables \cup {NoTable, BadTable}

\* redemption options (RedemptionOption.points_required)
Options == {"optA", "optB"}
points_required(opt) == IF opt = "optA" THEN 40 ELSE 20

\* catalog items
Items == {"a", "b"}
\* totals of the unpaid order that exists initially in the loyalty runs
OrderTotals == {250, 50}
\* points the customer earned with the order paid before the run starts
SeedPoints == SeedTotal \div 100
\* discount percentages the admin may set (0 = no SpecialOffer row)
Percentages == {20, 50}
\* SpecialOffer.start_date / end_date as the admin may enter them; nothing
\* validates that the end comes after the start
Times == 0..MaxTime
Windows == [start : Times, end : Times]
\* the window of an item without SpecialOffer row
NoWindow == [start |-> 0, end |-> 0]
\* an offer that runs over the whole period of the run
ActiveWindow == [start |-> 0, end |-> MaxTime]
\* Order.STATUS_CHOICES
Statuses == {"PENDING", "READY", "COMPLETE", "DELIVERED"}
\* Review.rating values a request sends
Ratings == {1, 5}

VARIABLES
    orders,         \* Order rows: id -> record
    nextOrder,      \* number of Order rows ever inserted
    points,         \* CustomerLoyaltyPoint.points of the customer
    transactions,   \* Transaction rows (points awards), a bag of rows
    redemptions,    \* RedemptionTransaction rows, a bag of rows
    nextRedemption, \* number of RedemptionTransaction rows ever inserted
    notifications,  \* Notification rows, a bag of rows
    lines,          \* CartItem rows of the customer's cart
    nextLine,       \* number of CartItem rows ever inserted
    cart_total,     \* Cart.total_price (the stored total)
    fooditems,      \* FoodItem.price per item
    offers,         \* SpecialOffer.discount_percentage per item, 0 = no row
    windows,        \* SpecialOffer.start_date and end_date per item
    reviews,        \* Review rows, a bag of rows
    nextReview,     \* number of Review rows ever inserted (the last id)
    now,            \* timezone.now(), in days
    adminCalls,     \* catalog changes made so far
    pc,             \* per worker: position inside its handler
    loc,            \* per worker: the handler's local variables
    res,            \* per worker: outcome of its last finished request
    calls           \* per worker: requests started

vars == <<orders, nextOrder, points, transactions, redemptions, nextRedemption, notifications,
          lines, nextLine, cart_total, fooditems, offers, windows, reviews, nextReview, now,
          adminCalls, pc, loc, res, calls>>

dbLoyalty == <<points, transactions, redemptions, nextRedemption>>
dbCart == <<lines, nextLine, cart_total>>
dbCatalog == <<fooditems, offers, windows, adminCalls>>
dbReview == <<reviews, nextReview, now>>

(***************************************************************************)
(* Rows and helpers.                                                       *)
(***************************************************************************)
NoOrder == [exists |-> FALSE, total |-> 0, is_paid |-> FALSE,
            status |-> "PENDING", table |-> NoTable, items |-> {}, updated_at |-> 0]

NoLoc == [op |-> "none"]
NoRes == [op |-> "none", out |-> "none"]

\* the rows of a table are kept as a bag: rows differ only by their uuid
Insert(table, row) == table (+) SetToBag({row})

RECURSIVE InsertAll(_, _)
InsertAll(table, rows) ==
    IF rows = << >> THEN table ELSE InsertAll(Insert(table, Head(rows)), Tail(rows))

RECURSIVE SumBag(_, _)
SumBag(B, field) ==
    IF DOMAIN B = {} THEN 0
    ELSE LET r == CHOOSE x \in DOMAIN B : TRUE
         IN  B[r] * r[field] + SumBag([x \in DOMAIN B \ {r} |-> B[x]], field)

\* Transaction.points_earned summed over the ledger
Earned == SumBag(transactions, "points_earned")
\* RedemptionTransaction.points_redeemed summed over the ledger
Redeemed == SumBag(redemptions, "points_redeemed")

\* award_customer_points: int(order.total_price // 100), rounded variant
PointsEarnedRounded(total) == (total + 50) \div 100
\* award_customer_points: int(order.total_price // 100)
PointsEarned(total) == total \div 100

\* RedeemLoyaltyPointsAPIView.post without its balance check
RedeemAllowedUnchecked(balance, cost) == TRUE
\* RedeemLoyaltyPointsAPIView.post: "if points < points_required: 400"
RedeemAllowed(balance, cost) == ~(balance < cost)

\* a request returns: the worker is idle again and its outcome is recorded
Finish(w, r) ==
    /\ pc' = [pc EXCEPT ![w] = "idle"]
    /\ loc' = [loc EXCEPT ![w] = NoLoc]
    /\ res' = [res EXCEPT ![w] = r]

Goto(w, label, l) ==
    /\ pc' = [pc EXCEPT ![w] = label]
    /\ loc' = [loc EXCEPT ![w] = l]
    /\ res' = res

RECURSIVE SumCalls(_)
SumCalls(W) ==
    IF W = {} THEN 0
    ELSE LET w == CHOOSE x \in W : TRUE IN calls[w] + SumCalls(W \ {w})

CanStart(w) == pc[w] = "idle" /\ SumCalls(Workers) < MaxCalls
Started(w) == calls' = [calls EXCEPT ![w] = @ + 1]

(***************************************************************************)
(* PaymentView.post (confirmPayment) and the pre_save receivers of Order.  *)
(***************************************************************************)
\* views.py 404-431: fetch the order, reject paid orders and bad tables,
\* then set dining_table and is_paid on the in-memory instance
PayBegin(w, o, t) ==
    /\ CanStart(w)
    /\ Started(w)
    /\ LET r(out) == [op |-> "pay", order |-> o, table |-> t, out |-> out,
                      pre_order |-> orders[o], pre_points |-> points]
       IN  IF ~orders[o].exists THEN Finish(w, r("NotFound"))
           ELSE IF orders[o].is_paid THEN Finish(w, r("AlreadyPaid"))
           ELSE IF t = NoTable THEN Finish(w, r("TableRequired"))
           ELSE IF t \notin Tables THEN Finish(w, r("TableNotFound"))
           ELSE Goto(w, "pay_sig_status",
                     [op |-> "pay", order |-> o, table |-> t,
                      inst |-> [orders[o] EXCEPT !.table = t, !.is_paid = TRUE],
                      pre_order |-> orders[o], pre_points |-> points,
                      pts |-> 0])
    /\ UNCHANGED <<orders, nextOrder, dbLoyalty, notifications, dbCart, dbCatalog, dbReview>>

\* signals.py order_status_change_notification, run by order.save()
OrderStatusSignal(prev, inst, o) ==
    IF prev.exists /\ prev.status # inst.status /\ inst.status = "COMPLETE"
    THEN <<[kind |-> "order_complete", order |-> o]>>
    ELSE << >>

\* signals.py order_payment_notification, run by order.save()
OrderPaymentSignal(prev, inst, o) ==
    IF prev.exists /\ ~prev.is_paid /\ inst.is_paid
    THEN <<[kind |-> "payment_customer", order |-> o],
           [kind |-> "payment_admin", order |-> o]>>
    ELSE << >>

\* signals.py award_loyalty_points: the award runs whatever the stored flag
AwardDueAlways(prev, inst) == prev.exists /\ inst.is_paid
\* signals.py award_loyalty_points: award when is_paid turns true
AwardDue(prev, inst) == prev.exists /\ ~prev.is_paid /\ inst.is_paid

PaySigStatus(w) ==
    /\ pc[w] = "pay_sig_status"
    /\ notifications' = InsertAll(notifications,
           OrderStatusSignal(orders[loc[w].order], loc[w].inst, loc[w].order))
    /\ Goto(w, "pay_sig_paid", loc[w])
    /\ UNCHANGED <<orders, nextOrder, dbLoyalty, dbCart, dbCatalog, dbReview, calls>>

PaySigPaid(w) ==
    /\ pc[w] = "pay_sig_paid"
    /\ notifications' = InsertAll(notifications,
           OrderPaymentSignal(orders[loc[w].order], loc[w].inst, loc[w].order))
    /\ Goto(w, "pay_sig_award", loc[w])
    /\ UNCHANGED <<orders, nextOrder, dbLoyalty, dbCart, dbCatalog, dbReview, calls>>

PaySigAward(w) ==
    /\ pc[w] = "pay_sig_award"
    /\ IF AwardDue(orders[loc[w].order], loc[w].inst)
       THEN Goto(w, "award_get", loc[w])
       ELSE Goto(w, "pay_update", loc[w])
    /\ UNCHANGED <<orders, nextOrder, dbLoyalty, notifications, dbCart, dbCatalog, dbReview, calls>>

\* myutils.py 4-9: read the account, compute the points of the order
AwardGet(w) ==
    /\ pc[w] = "award_get"
    /\ IF PointsEarned(loc[w].inst.total) > 0
       THEN Goto(w, "award_save", [loc[w] EXCEPT !.pts = points])
       ELSE Goto(w, "pay_update", loc[w])
    /\ UNCHANGED <<orders, nextOrder, dbLoyalty, notifications, dbCart, dbCatalog, dbReview, calls>>

\* myutils.py 11-12: customer_points.points += points_earned; save()
AwardSave(w) ==
    /\ pc[w] = "award_save"
    /\ points' = loc[w].pts + PointsEarned(loc[w].inst.total)
    /\ Goto(w, "award_tx", loc[w])
    /\ UNCHANGED <<orders, nextOrder, transactions, redemptions, nextRedemption, notifications,
                   dbCart, dbCatalog, dbReview, calls>>

\* myutils.py 15-19: Transaction.objects.create
AwardTx(w) ==
    /\ pc[w] = "award_tx"
    /\ transactions' = Insert(transactions,
           [order |-> loc[w].order, amount |-> loc[w].inst.total,
            points_earned |-> PointsEarned(loc[w].inst.total)])
    /\ Goto(w, "pay_update", loc[w])
    /\ UNCHANGED <<orders, nextOrder, points, redemptions, nextRedemption, notifications,
                   dbCart, dbCatalog, dbReview, calls>>

\* an order total that follows the cart's stored total at each save
total_price_live(inst) == cart_total
\* Order.total_price is a stored column: save() writes the instance's value
total_price(inst) == inst.total

\* views.py 435: the UPDATE of order.save() writes every field of the
\* in-memory instance (an INSERT when the row has gone); updated_at is
\* auto_now.  The same save() ends a status change made in the admin site.
PayUpdate(w) ==
    /\ pc[w] = "pay_update"
    /\ orders' = [orders EXCEPT ![loc[w].order] =
                      [loc[w].inst EXCEPT !.exists = TRUE, !.items = orders[loc[w].order].items,
                                          !.updated_at = now,
                                          !.total = total_price(loc[w].inst)]]
    /\ Finish(w, [op |-> loc[w].op, order |-> loc[w].order, table |-> loc[w].table,
                  status |-> loc[w].inst.status,
                  out |-> "ok", pre_order |-> loc[w].pre_order,
                  pre_points |-> loc[w].pre_points])
    /\ UNCHANGED <<nextOrder, dbLoyalty, notifications, dbCart, dbCatalog, dbReview, calls>>

(***************************************************************************)
(* Order status changes.  No view writes Order.status; the model is        *)
(* registered with the admin site, whose change form loads the row and     *)
(* saves it with order.save(), receivers included.                         *)
(***************************************************************************)
\* position of a status in PENDING < READY < COMPLETE < DELIVERED
Rank(s) ==
    IF s = "PENDING" THEN 0 ELSE IF s = "READY" THEN 1
    ELSE IF s = "COMPLETE" THEN 2 ELSE 3

\* admin.py 6: the change form reads the order; the submitted form carries
\* the fields as read, with the status the admin chose, and is then saved
StatusBegin(w, o, s) ==
    /\ CanStart(w)
    /\ Started(w)
    /\ IF ~orders[o].exists
       THEN Finish(w, [op |-> "status", order |-> o, table |-> NoTable,
                       status |-> s, out |-> "NotFound", pre_order |-> orders[o],
                       pre_points |-> points])
       ELSE Goto(w, "pay_sig_status",
                 [op |-> "status", order |-> o, table |-> orders[o].table,
                  inst |-> [orders[o] EXCEPT !.status = s],
                  pre_order |-> orders[o], pre_points |-> points, pts |-> 0])
    /\ UNCHANGED <<orders, nextOrder, dbLoyalty, notifications, dbCart, dbCatalog, dbReview>>

(***************************************************************************)
(* CancelOrderView.post (cancel).                                          *)
(***************************************************************************)
\* rows of a table that do not reference order o
NotOfOrder(table, o) == [r \in {x \in DOMAIN table : x.order # o} |-> table[r]]

CancelRes(w, o, out) ==
    [op |-> "cancel", order |-> o, out |-> out, pre_orders |-> orders,
     pre_points |-> points, pre_lines |-> lines, pre_total |-> cart_total]

\* views.py 380-382: Order.objects.get(id, user, is_paid=False); a paid or
\* missing order gives DoesNotExist, answered 404 "Order not found."
CancelBegin(w, o) ==
    /\ CanStart(w)
    /\ Started(w)
    /\ IF orders[o].exists /\ ~orders[o].is_paid
       THEN Goto(w, "cancel_delete", CancelRes(w, o, "ok"))
       ELSE Finish(w, CancelRes(w, o, "NotFound"))
    /\ UNCHANGED <<orders, nextOrder, dbLoyalty, notifications, dbCart, dbCatalog, dbReview>>

\* views.py 385: order.delete() deletes the row by primary key, whatever it
\* holds by now, with its reviews and order_items rows (CASCADE)
CancelDelete(w) ==
    /\ pc[w] = "cancel_delete"
    /\ orders' = [orders EXCEPT ![loc[w].order] = NoOrder]
    /\ reviews' = NotOfOrder(reviews, loc[w].order)
    /\ Finish(w, loc[w])
    /\ UNCHANGED <<nextOrder, dbLoyalty, notifications, dbCart, dbCatalog, nextReview, now, calls>>

(***************************************************************************)
(* AddReviewView.post (createReview).                                      *)
(***************************************************************************)
\* number of Review rows of order o
ReviewCount(o) ==
    BagCardinality([r \in {x \in DOMAIN reviews : x.order = o} |-> reviews[r]])

\* review/views.py 35: Order.objects.get(id=order_id, user=user)
ReviewBegin(w, o, rating) ==
    /\ CanStart(w)
    /\ Started(w)
    /\ IF ~orders[o].exists
       THEN Finish(w, [op |-> "review", order |-> o, rating |-> rating,
                       out |-> "NotFound"])
       ELSE Goto(w, "rev_exists",
                 [op |-> "review", order |-> o, rating |-> rating, inst |-> orders[o]])
    /\ UNCHANGED <<orders, nextOrder, dbLoyalty, notifications, dbCart, dbCatalog, dbReview>>

\* review/views.py 38-50: order.review.exists() queries the reviews; paid
\* flag and updated_at are those of the order as fetched
ReviewExists(w) ==
    /\ pc[w] = "rev_exists"
    /\ LET r(out) == [op |-> "review", order |-> loc[w].order,
                      rating |-> loc[w].rating, out |-> out]
       IN  IF ReviewCount(loc[w].order) > 0 THEN Finish(w, r("AlreadyReviewed"))
           ELSE IF ~loc[w].inst.is_paid THEN Finish(w, r("NotPaid"))
           ELSE IF loc[w].inst.updated_at # now THEN Finish(w, r("WindowClosed"))
           ELSE Goto(w, "rev_insert", loc[w])
    /\ UNCHANGED <<orders, nextOrder, dbLoyalty, notifications, dbCart, dbCatalog,
                   dbReview, calls>>

\* review/views.py 53-57: serializer.save(user, order) inserts the Review;
\* the foreign key refuses an order that has gone
ReviewInsert(w) ==
    /\ pc[w] = "rev_insert"
    /\ LET r(out) == [op |-> loc[w].op, order |-> loc[w].order,
                      rating |-> loc[w].rating, out |-> out]
       IN  IF orders[loc[w].order].exists
           THEN /\ reviews' = Insert(reviews, [id |-> nextReview + 1,
                                               order |-> loc[w].order,
                                               rating |-> loc[w].rating])
                /\ nextReview' = nextReview + 1
                /\ Finish(w, r("ok"))
           ELSE /\ UNCHANGED <<reviews, nextReview>>
                /\ Finish(w, r("IntegrityError"))
    /\ UNCHANGED <<orders, nextOrder, dbLoyalty, notifications, dbCart, dbCatalog,
                   now, calls>>

\* customerend/views.py 457: order.review is the related manager of the
\* order's reviews, an object, which Python takes as true whether or not
\* the order has a review
order_review(o) == TRUE

\* customerend/views.py 451-477, the AddReviewView routed under
\* orders/<order_id>/review/: fetch the order, then `if order.review:`
CustomerReviewBegin(w, o, rating) ==
    /\ CanStart(w)
    /\ Started(w)
    /\ LET r(out) == [op |-> "addreview", order |-> o, rating |-> rating, out |-> out]
       IN  IF ~orders[o].exists THEN Finish(w, r("NotFound"))
           ELSE IF order_review(o) THEN Finish(w, r("AlreadyReviewed"))
           ELSE IF ~orders[o].is_paid THEN Finish(w, r("NotPaid"))
           ELSE IF orders[o].updated_at # now THEN Finish(w, r("WindowClosed"))
           ELSE Goto(w, "rev_insert",
                     [op |-> "addreview", order |-> o, rating |-> rating,
                      inst |-> orders[o]])
    /\ UNCHANGED <<orders, nextOrder, dbLoyalty, notifications, dbCart, dbCatalog, dbReview>>

ReviewIds == 1..MaxCalls

HasReview(id) == \E r \in DOMAIN reviews : r.id = id

ReviewOf(id) == CHOOSE r \in DOMAIN reviews : r.id = id

NotOfReview(id) ==
    LET keep == {r \in DOMAIN reviews : r.id # id}
    IN  [r \in keep |-> reviews[r]]

\* review/views.py 102-106: Review.objects.get(id=review_id, user=user)
ReviewUpdateBegin(w, id, rating) ==
    /\ CanStart(w)
    /\ Started(w)
    /\ IF ~HasReview(id)
       THEN Finish(w, [op |-> "revupdate", id |-> id, rating |-> rating,
                       out |-> "NotFound"])
       ELSE Goto(w, "revupd_order",
                 [op |-> "revupdate", id |-> id, rating |-> rating,
                  row |-> ReviewOf(id)])
    /\ UNCHANGED <<orders, nextOrder, dbLoyalty, notifications, dbCart, dbCatalog, dbReview>>

\* review/views.py 108-111: review.order fetches the order of the review;
\* its updated_at is compared with the date of now
ReviewUpdateOrder(w) ==
    /\ pc[w] = "revupd_order"
    /\ LET r(out) == [op |-> "revupdate", id |-> loc[w].id,
                      rating |-> loc[w].rating, out |-> out]
           order == orders[loc[w].row.order]
       IN  IF ~order.exists THEN Finish(w, r("Error"))
           ELSE IF order.updated_at # now THEN Finish(w, r("WindowClosed"))
           ELSE Goto(w, "revupd_save", loc[w])
    /\ UNCHANGED <<orders, nextOrder, dbLoyalty, notifications, dbCart, dbCatalog,
                   dbReview, calls>>

\* review/views.py 114-118: serializer.save() writes the row of the review
\* (UPDATE by id, INSERT when the row has gone)
ReviewUpdateSave(w) ==
    /\ pc[w] = "revupd_save"
    /\ LET r(out) == [op |-> "revupdate", id |-> loc[w].id,
                      rating |-> loc[w].rating, out |-> out]
       IN  IF HasReview(loc[w].id) \/ orders[loc[w].row.order].exists
           THEN /\ reviews' = Insert(NotOfReview(loc[w].id),
                                     [loc[w].row EXCEPT !.rating = loc[w].rating])
                /\ Finish(w, r("ok"))
           ELSE /\ reviews' = reviews
                /\ Finish(w, r("IntegrityError"))
    /\ UNCHANGED <<orders, nextOrder, dbLoyalty, notifications, dbCart, dbCatalog,
                   nextReview, now, calls>>

(***************************************************************************)
(* RedeemLoyaltyPointsAPIView.post (redeem).                               *)
(***************************************************************************)
\* views.py 677-683: read the option and the account, check the balance
RedeemBegin(w, opt) ==
    /\ CanStart(w)
    /\ Started(w)
    /\ IF RedeemAllowed(points, points_required(opt))
       THEN Goto(w, "red_save", [op |-> "redeem", opt |-> opt, pts |-> points])
       ELSE Finish(w, [op |-> "redeem", opt |-> opt, out |-> "InsufficientPoints"])
    /\ UNCHANGED <<orders, nextOrder, dbLoyalty, notifications, dbCart, dbCatalog, dbReview>>

\* views.py 686-687: points -= points_required on the cached account; save()
RedeemSave(w) ==
    /\ pc[w] = "red_save"
    /\ points' = loc[w].pts - points_required(loc[w].opt)
    /\ Goto(w, "red_tx", loc[w])
    /\ UNCHANGED <<orders, nextOrder, transactions, redemptions, nextRedemption, notifications,
                   dbCart, dbCatalog, dbReview, calls>>

\* views.py 690-694: RedemptionTransaction.objects.create
RedeemTx(w) ==
    /\ pc[w] = "red_tx"
    /\ nextRedemption' = nextRedemption + 1
    /\ redemptions' = Insert(redemptions,
           [id |-> nextRedemption + 1, opt |-> loc[w].opt,
            points_redeemed |-> points_required(loc[w].opt), status |-> "PENDING"])
    /\ Goto(w, "red_notify", loc[w])
    /\ UNCHANGED <<orders, nextOrder, points, transactions, notifications,
                   dbCart, dbCatalog, dbReview, calls>>

\* views.py 697-701: Notification.objects.create, then the 201 response
RedeemNotify(w) ==
    /\ pc[w] = "red_notify"
    /\ notifications' = Insert(notifications, [kind |-> "redeemed", order |-> 0])
    /\ Finish(w, [op |-> "redeem", opt |-> loc[w].opt, out |-> "ok"])
    /\ UNCHANGED <<orders, nextOrder, dbLoyalty, dbCart, dbCatalog, dbReview, calls>>

(***************************************************************************)
(* RedemptionTransactionDetailView.delete and                              *)
(* MarkRedemptionTransactionDeliveredView.patch of the cafe admin.         *)
(***************************************************************************)
RedemptionIds == 1..MaxCalls

\* the RedemptionTransaction rows other than the one of primary key id
NotOfId(id) == [r \in {x \in DOMAIN redemptions : x.id # id} |-> redemptions[r]]

\* a status that markDelivered would leave as it is
KeepStatus(s) == s
\* cafeadminend/views.py 961: transaction.status = 'DELIVERED'
Delivered(s) == "DELIVERED"

\* cafeadminend/views.py 960: get_object(pk); "Transaction not found" if none
MarkBegin(w, id) ==
    /\ CanStart(w)
    /\ Started(w)
    /\ IF \E r \in DOMAIN redemptions : r.id = id
       THEN Goto(w, "mark_save",
                 [op |-> "mark", id |-> id,
                  row |-> CHOOSE r \in DOMAIN redemptions : r.id = id])
       ELSE Finish(w, [op |-> "mark", id |-> id, out |-> "NotFound"])
    /\ UNCHANGED <<orders, nextOrder, dbLoyalty, notifications, dbCart, dbCatalog, dbReview>>

\* cafeadminend/views.py 961-962: status = 'DELIVERED'; save() updates the
\* row by primary key and inserts it when it has gone
MarkSave(w) ==
    /\ pc[w] = "mark_save"
    /\ redemptions' = Insert(NotOfId(loc[w].id),
                             [loc[w].row EXCEPT !.status = Delivered(@)])
    /\ Finish(w, [op |-> "mark", id |-> loc[w].id, out |-> "ok"])
    /\ UNCHANGED <<orders, nextOrder, points, transactions, nextRedemption, notifications,
                   dbCart, dbCatalog, dbReview, calls>>

\* a delete that does not look at the status
DeletableAlways(row) == TRUE
\* cafeadminend/views.py 937: if transaction.status == 'DELIVERED'
Deletable(row) == row.status = "DELIVERED"

\* cafeadminend/views.py 935-941: get_object(pk), then the status test
RedemptionDeleteBegin(w, id) ==
    /\ CanStart(w)
    /\ Started(w)
    /\ IF ~\E r \in DOMAIN redemptions : r.id = id
       THEN Finish(w, [op |-> "redel", id |-> id, out |-> "NotFound"])
       ELSE IF Deletable(CHOOSE r \in DOMAIN redemptions : r.id = id)
       THEN Goto(w, "redel_delete", [op |-> "redel", id |-> id])
       ELSE Finish(w, [op |-> "redel", id |-> id, out |-> "NotDelivered"])
    /\ UNCHANGED <<orders, nextOrder, dbLoyalty, notifications, dbCart, dbCatalog, dbReview>>

\* cafeadminend/views.py 938: transaction.delete()
RedemptionDelete(w) ==
    /\ pc[w] = "redel_delete"
    /\ redemptions' = NotOfId(loc[w].id)
    /\ Finish(w, [op |-> "redel", id |-> loc[w].id, out |-> "ok"])
    /\ UNCHANGED <<orders, nextOrder, points, transactions, nextRedemption, notifications,
                   dbCart, dbCatalog, dbReview, calls>>

\* the worker process dies between two queries; autocommit keeps what it wrote
Crash(w) ==
    /\ pc[w] # "idle"
    /\ Finish(w, [op |-> loc[w].op, out |-> "crash"])
    /\ UNCHANGED <<orders, nextOrder, dbLoyalty, notifications, dbCart, dbCatalog, dbReview, calls>>

(***************************************************************************)
(* Pricing and the stored cart total.                                      *)
(***************************************************************************)
\* CartItem.price that ignores the SpecialOffer row
PriceNoOffer(item) == fooditems[item]
\* CartItem.price: the FoodItem price less discount_percentage / 100 of it
\* when a SpecialOffer row exists for the item
Price(item) == fooditems[item] - (offers[item] * fooditems[item]) \div 100

\* CartItem.total_price
LineTotal(l) == Price(l.item) * l.qty

RECURSIVE SumLines(_)
SumLines(L) ==
    IF L = {} THEN 0
    ELSE LET l == CHOOSE x \in L : TRUE IN LineTotal(l) + SumLines(L \ {l})

\* CartAPIView.get: "total_cart_price" is the stored Cart.total_price
ViewCart == cart_total

\* order.order_items.all(): the CartItem rows the order's ManyToMany rows join
OrderLines(o) == {l \in lines : l.id \in orders[o].items}

\* what an order shows of a line: the item and its quantity
OrderSnapshots(L) == {[item |-> l.item, qty |-> l.qty] : l \in L}

\* the ManyToMany rows of Order.order_items go with the CartItem rows they
\* reference (on_delete CASCADE of the through table)
CascadeItems(ids) ==
    [o \in OrderIds |-> [orders[o] EXCEPT !.items = @ \ ids]]

\* signals.py update_cart_total_on_save, first half: sum(item.total_price ...);
\* the receiver's queries (the rows, then FoodItem and SpecialOffer of each
\* row) are taken as one read of the database
SigSum(w) ==
    /\ pc[w] = "sig_sum"
    /\ Goto(w, "sig_save", [loc[w] EXCEPT !.sum = SumLines(lines)])
    /\ UNCHANGED <<orders, nextOrder, dbLoyalty, notifications, dbCart, dbCatalog, dbReview, calls>>

\* signals.py update_cart_total_on_save, second half: cart.save()
SigSave(w) ==
    /\ pc[w] = "sig_save"
    /\ cart_total' = loc[w].sum
    /\ Finish(w, [op |-> loc[w].op, out |-> "ok"])
    /\ UNCHANGED <<orders, nextOrder, dbLoyalty, notifications, lines, nextLine,
                   dbCatalog, dbReview, calls>>

(***************************************************************************)
(* AddItemToCartAPIView.post (addLine).                                    *)
(***************************************************************************)
\* the check of views.py 213-218 that lets every item through
InCartNever(item) == FALSE
\* views.py 213-218: CartItem.objects.get(cart, fooditem) finds a row
InCart(item) == \E l \in lines : l.item = item

\* views.py 207-229: reject an item that is already in the cart, validate
\* the quantity
AddBegin(w, item, qty) ==
    /\ CanStart(w)
    /\ Started(w)
    /\ IF InCart(item)
       THEN Finish(w, [op |-> "add", item |-> item, out |-> "DuplicateLine"])
       ELSE IF qty <= 0
       THEN Finish(w, [op |-> "add", item |-> item, out |-> "InvalidQuantity"])
       ELSE Goto(w, "add_insert", [op |-> "add", item |-> item, qty |-> qty, sum |-> 0])
    /\ UNCHANGED <<orders, nextOrder, dbLoyalty, notifications, dbCart, dbCatalog, dbReview>>

\* views.py 230: serializer.save() inserts the row; unique_together
\* (cart, fooditem) makes the INSERT fail when the item arrived meanwhile
AddInsert(w) ==
    /\ pc[w] = "add_insert"
    /\ nextLine < MaxLines
    /\ IF \E l \in lines : l.item = loc[w].item
       THEN /\ Finish(w, [op |-> "add", out |-> "IntegrityError"])
            /\ UNCHANGED <<lines, nextLine>>
       ELSE /\ lines' = lines \cup
                   {[id |-> nextLine + 1, item |-> loc[w].item, qty |-> loc[w].qty]}
            /\ nextLine' = nextLine + 1
            /\ Goto(w, "sig_sum", loc[w])
    /\ UNCHANGED <<orders, nextOrder, dbLoyalty, notifications, cart_total, dbCatalog, dbReview, calls>>

(***************************************************************************)
(* CartItemDetailAPIView.patch (updateLine) and .delete (removeLine).      *)
(***************************************************************************)
\* views.py 270-272: fetch the line of the caller's cart, validate
UpdateBegin(w, id, qty) ==
    /\ CanStart(w)
    /\ Started(w)
    /\ IF ~\E l \in lines : l.id = id
       THEN Finish(w, [op |-> "update", out |-> "NotFound"])
       ELSE IF qty <= 0
       THEN Finish(w, [op |-> "update", out |-> "InvalidQuantity"])
       ELSE LET l == CHOOSE x \in lines : x.id = id
            IN  Goto(w, "upd_save", [op |-> "update", line |-> [l EXCEPT !.qty = qty],
                                     sum |-> 0])
    /\ UNCHANGED <<orders, nextOrder, dbLoyalty, notifications, dbCart, dbCatalog, dbReview>>

\* views.py 274: serializer.save() updates the row by primary key, and
\* inserts it when no row was updated
UpdateSave(w) ==
    /\ pc[w] = "upd_save"
    /\ LET gone == ~\E l \in lines : l.id = loc[w].line.id
       IN  IF gone /\ \E l \in lines : l.item = loc[w].line.item
           THEN /\ Finish(w, [op |-> "update", out |-> "IntegrityError"])
                /\ UNCHANGED lines
           ELSE /\ lines' = {l \in lines : l.id # loc[w].line.id} \cup {loc[w].line}
                /\ Goto(w, "sig_sum", loc[w])
    /\ UNCHANGED <<orders, nextOrder, dbLoyalty, notifications, nextLine, cart_total,
                   dbCatalog, dbReview, calls>>

\* views.py 284: fetch the line of the caller's cart
RemoveBegin(w, id) ==
    /\ CanStart(w)
    /\ Started(w)
    /\ IF ~\E l \in lines : l.id = id
       THEN Finish(w, [op |-> "remove", out |-> "NotFound"])
       ELSE Goto(w, "rem_delete", [op |-> "remove", id |-> id])
    /\ UNCHANGED <<orders, nextOrder, dbLoyalty, notifications, dbCart, dbCatalog, dbReview>>

\* views.py 285: cart_item.delete(); the DELETE and the post_delete receiver
\* update_cart_total_on_delete run in the transaction of Collector.delete
RemoveDelete(w) ==
    /\ pc[w] = "rem_delete"
    /\ lines' = {l \in lines : l.id # loc[w].id}
    /\ orders' = CascadeItems({loc[w].id})
    /\ cart_total' = SumLines(lines')
    /\ Finish(w, [op |-> "remove", out |-> "ok"])
    /\ UNCHANGED <<nextOrder, dbLoyalty, notifications, nextLine, dbCatalog, dbReview, calls>>

(***************************************************************************)
(* PlaceOrderView.post (place).                                            *)
(***************************************************************************)
\* views.py 300-302: cart = user.cart loads the Cart row, stored total included
PlaceBegin(w) ==
    /\ CanStart(w)
    /\ Started(w)
    /\ Goto(w, "pl_exists",
            [op |-> "place", total |-> cart_total, order |-> 0, ids |-> {},
             removed |-> {}, pre_lines |-> lines, pre_sum |-> SumLines(lines)])
    /\ UNCHANGED <<orders, nextOrder, dbLoyalty, notifications, dbCart, dbCatalog, dbReview>>

PlaceRes(w, out) ==
    [op |-> "place", out |-> out, order |-> loc[w].order, removed |-> loc[w].removed,
     pre_lines |-> loc[w].pre_lines, pre_sum |-> loc[w].pre_sum]

\* the check of views.py 305 that finds lines in every cart
cart_items_exists_always == TRUE
\* views.py 305: cart_items.exists()
cart_items_exists == lines # {}

\* views.py 305-306: if not cart_items.exists(): 400
PlaceExists(w) ==
    /\ pc[w] = "pl_exists"
    /\ IF ~cart_items_exists
       THEN Finish(w, PlaceRes(w, "EmptyCart"))
       ELSE Goto(w, "pl_create", loc[w])
    /\ UNCHANGED <<orders, nextOrder, dbLoyalty, notifications, dbCart, dbCatalog, dbReview, calls>>

\* views.py 309-315: Order.objects.create(user, total_price=cart.total_price);
\* the pre_save receivers find no stored row and do nothing
PlaceCreate(w) ==
    /\ pc[w] = "pl_create"
    /\ nextOrder < MaxOrders
    /\ nextOrder' = nextOrder + 1
    /\ orders' = [orders EXCEPT ![nextOrder + 1] =
                      [NoOrder EXCEPT !.exists = TRUE, !.total = loc[w].total,
                                      !.updated_at = now]]
    /\ Goto(w, "pl_set", [loc[w] EXCEPT !.order = nextOrder + 1])
    /\ UNCHANGED <<dbLoyalty, notifications, dbCart, dbCatalog, dbReview, calls>>

\* views.py 318: order.order_items.set(cart_items) reads the cart's lines now
PlaceSetItems(w) ==
    /\ pc[w] = "pl_set"
    /\ IF orders[loc[w].order].exists
       THEN /\ orders' = [orders EXCEPT ![loc[w].order].items = {l.id : l \in lines}]
            /\ Goto(w, "pl_save", loc[w])
       ELSE /\ Finish(w, PlaceRes(w, "IntegrityError"))
            /\ UNCHANGED orders
    /\ UNCHANGED <<nextOrder, dbLoyalty, notifications, dbCart, dbCatalog, dbReview, calls>>

\* views.py 319: order.save() writes every field of the instance built by
\* create(); its pre_save receivers see status PENDING and is_paid False
PlaceSave(w) ==
    /\ pc[w] = "pl_save"
    /\ LET o == loc[w].order
           inst == [NoOrder EXCEPT !.exists = TRUE, !.total = loc[w].total,
                                   !.items = orders[o].items, !.updated_at = now]
       IN  /\ notifications' = InsertAll(notifications,
                  OrderStatusSignal(orders[o], inst, o) \o OrderPaymentSignal(orders[o], inst, o))
           /\ orders' = [orders EXCEPT ![o] = inst]
    /\ Goto(w, "pl_collect", loc[w])
    /\ UNCHANGED <<nextOrder, dbLoyalty, dbCart, dbCatalog, dbReview, calls>>

\* views.py 322: cart.cartitems.all().delete() first selects the rows
PlaceCollect(w) ==
    /\ pc[w] = "pl_collect"
    /\ Goto(w, "pl_delete", [loc[w] EXCEPT !.ids = {l.id : l \in lines}])
    /\ UNCHANGED <<orders, nextOrder, dbLoyalty, notifications, dbCart, dbCatalog, dbReview, calls>>

\* views.py 322: then deletes them by primary key; the post_delete receiver
\* update_cart_total_on_delete runs for each selected row in that transaction
PlaceDelete(w) ==
    /\ pc[w] = "pl_delete"
    /\ lines' = {l \in lines : l.id \notin loc[w].ids}
    /\ orders' = CascadeItems(loc[w].ids)
    /\ cart_total' = IF loc[w].ids = {} THEN cart_total ELSE SumLines(lines')
    /\ Goto(w, "pl_cartsave", [loc[w] EXCEPT !.removed = lines \ lines'])
    /\ UNCHANGED <<nextOrder, dbLoyalty, notifications, nextLine, dbCatalog, dbReview, calls>>

\* views.py 323: cart.save() writes the Cart instance loaded at the start
PlaceCartSave(w) ==
    /\ pc[w] = "pl_cartsave"
    /\ cart_total' = loc[w].total
    /\ Finish(w, PlaceRes(w, "ok"))
    /\ UNCHANGED <<orders, nextOrder, dbLoyalty, notifications, lines, nextLine,
                   dbCatalog, dbReview, calls>>

(***************************************************************************)
(* Special offers (menu/views.py), changed by the cafe admin.  No receiver *)
(* is connected to SpecialOffer, so the stored cart total is not touched.  *)
(***************************************************************************)
AdminCan == adminCalls < MaxAdmin
AdminDid == adminCalls' = adminCalls + 1

\* SpecialOfferCreateAPIView.post
OfferCreate(item, pct, win) ==
    /\ AdminCan /\ AdminDid
    /\ offers[item] = 0
    /\ offers' = [offers EXCEPT ![item] = pct]
    /\ windows' = [windows EXCEPT ![item] = win]
    /\ UNCHANGED <<orders, nextOrder, dbLoyalty, notifications, dbCart, fooditems,
                   dbReview, pc, loc, res, calls>>

\* SpecialOfferDetailAPIView.put
OfferUpdate(item, pct, win) ==
    /\ AdminCan /\ AdminDid
    /\ offers[item] # 0
    /\ offers[item] # pct \/ windows[item] # win
    /\ offers' = [offers EXCEPT ![item] = pct]
    /\ windows' = [windows EXCEPT ![item] = win]
    /\ UNCHANGED <<orders, nextOrder, dbLoyalty, notifications, dbCart, fooditems,
                   dbReview, pc, loc, res, calls>>

\* SpecialOfferDetailAPIView.delete
OfferDelete(item) ==
    /\ AdminCan /\ AdminDid
    /\ offers[item] # 0
    /\ offers' = [offers EXCEPT ![item] = 0]
    /\ windows' = [windows EXCEPT ![item] = NoWindow]
    /\ UNCHANGED <<orders, nextOrder, dbLoyalty, notifications, dbCart, fooditems,
                   dbReview, pc, loc, res, calls>>

\* prices the admin may give an item
Prices == {150, 300, 500}

\* menu/views.py FoodItemDetailView.patch: the admin changes an item's price;
\* no receiver is connected to FoodItem
PriceChange(item, price) ==
    /\ AdminCan /\ AdminDid
    /\ fooditems[item] # price
    /\ fooditems' = [fooditems EXCEPT ![item] = price]
    /\ UNCHANGED <<orders, nextOrder, dbLoyalty, notifications, dbCart, offers, windows,
                   dbReview, pc, loc, res, calls>>

(***************************************************************************)
(* Specifications of the payment / loyalty runs.                           *)
(***************************************************************************)
\* order 1 is placed and unpaid; order 2 was paid earlier and earned the
\* customer's current balance
Init ==
    /\ \E t \in OrderTotals :
         orders = [o \in OrderIds |->
                     IF o = 1 THEN [NoOrder EXCEPT !.exists = TRUE, !.total = t]
                     ELSE IF o = 2 THEN [NoOrder EXCEPT !.exists = TRUE, !.total = SeedTotal,
                                                        !.is_paid = TRUE, !.table = "t1"]
                     ELSE NoOrder]
    /\ nextOrder = 2
    /\ points = SeedPoints
    /\ transactions = SetToBag({[order |-> 2, amount |-> SeedTotal, points_earned |-> SeedPoints]})
    /\ redemptions = EmptyBag
    /\ nextRedemption = 0
    /\ notifications = EmptyBag
    /\ lines = {}
    /\ nextLine = 0
    /\ cart_total = 0
    /\ fooditems = [i \in Items |-> IF i = "a" THEN 500 ELSE 150]
    /\ offers = [i \in Items |-> 0]
    /\ windows = [i \in Items |-> NoWindow]
    /\ reviews = EmptyBag
    /\ nextReview = 0
    /\ now = 0
    /\ adminCalls = 0
    /\ pc = [w \in Workers |-> "idle"]
    /\ loc = [w \in Workers |-> NoLoc]
    /\ res = [w \in Workers |-> NoRes]
    /\ calls = [w \in Workers |-> 0]

PayStep(w) ==
    \/ \E o \in OrderIds, t \in TableInputs : PayBegin(w, o, t)
    \/ PaySigStatus(w)
    \/ PaySigPaid(w)
    \/ PaySigAward(w)
    \/ AwardGet(w)
    \/ AwardSave(w)
    \/ AwardTx(w)
    \/ PayUpdate(w)

RedeemStep(w) ==
    \/ \E opt \in Options : RedeemBegin(w, opt)
    \/ RedeemSave(w)
    \/ RedeemTx(w)
    \/ RedeemNotify(w)

Next == \E w \in Workers : PayStep(w) \/ RedeemStep(w)

\* concurrent payment and redemption requests
Spec == Init /\ [][Next]_vars

NextCrash == \E w \in Workers : PayStep(w) \/ RedeemStep(w) \/ Crash(w)

\* the same, with worker crashes
SpecCrash == Init /\ [][NextCrash]_vars

NextRedeemCrash == RedeemStep("w1") \/ Crash("w1")

\* redemptions only, one request at a time, the worker may crash
SpecRedeemCrash == Init /\ [][NextRedeemCrash]_vars

StatusStep(w) == \E o \in OrderIds, s \in Statuses : StatusBegin(w, o, s)

CancelStep(w) ==
    \/ \E o \in OrderIds : CancelBegin(w, o)
    \/ CancelDelete(w)

ReviewStep(w) ==
    \/ \E o \in OrderIds, r \in Ratings : ReviewBegin(w, o, r)
    \/ ReviewExists(w)
    \/ ReviewInsert(w)

CustomerReviewStep(w) ==
    \E o \in OrderIds, r \in Ratings : CustomerReviewBegin(w, o, r)

ReviewUpdateStep(w) ==
    \/ \E id \in ReviewIds, r \in Ratings : ReviewUpdateBegin(w, id, r)
    \/ ReviewUpdateOrder(w)
    \/ ReviewUpdateSave(w)

NextOrders == \E w \in Workers : PayStep(w) \/ StatusStep(w) \/ CancelStep(w)

\* concurrent payment, status change and cancellation requests
SpecOrders == Init /\ [][NextOrders]_vars

NextOrdersSeq == PayStep("w1") \/ StatusStep("w1") \/ CancelStep("w1")

\* the same requests, one at a time
SpecOrdersSeq == Init /\ [][NextOrdersSeq]_vars

NextReview == \E w \in Workers : ReviewStep(w)

\* concurrent review requests of the customer
SpecReview == Init /\ [][NextReview]_vars

DeliverStep(w) ==
    \/ \E id \in RedemptionIds : MarkBegin(w, id)
    \/ MarkSave(w)
    \/ \E id \in RedemptionIds : RedemptionDeleteBegin(w, id)
    \/ RedemptionDelete(w)

NextDeliver == \E w \in Workers : RedeemStep(w) \/ DeliverStep(w)

\* redemptions of the customer and their handling by the cafe admin
SpecDeliver == Init /\ [][NextDeliver]_vars

NextWindow ==
    \/ PayStep("w1")
    \/ StatusStep("w1")
    \/ ReviewStep("w1")
    \/ CustomerReviewStep("w1")
    \/ ReviewUpdateStep("w1")
    \/ (pc["w1"] = "idle" /\ now < MaxTime /\ now' = now + 1
        /\ UNCHANGED <<orders, nextOrder, dbLoyalty, notifications, dbCart, dbCatalog,
                       reviews, nextReview, pc, loc, res, calls>>)

\* payment, status changes and reviews of an order, one request at a time,
\* while the days pass between the requests
SpecWindow == Init /\ [][NextWindow]_vars

NextSeq == PayStep("w1") \/ RedeemStep("w1")

\* one request at a time
SpecSeq == Init /\ [][NextSeq]_vars

(***************************************************************************)
(* Specifications of the cart / placement runs.                            *)
(***************************************************************************)
\* carts a customer can have built: empty, one line, two lines
InitCarts ==
    { {},
      {[id |-> 1, item |-> "a", qty |-> 1]},
      {[id |-> 1, item |-> "a", qty |-> 1], [id |-> 2, item |-> "b", qty |-> 2]} }

\* a new customer with no orders and no points; the stored cart total is the
\* one the receivers computed at the last line change
InitCart ==
    /\ orders = [o \in OrderIds |-> NoOrder]
    /\ nextOrder = 0
    /\ points = 0
    /\ transactions = EmptyBag
    /\ redemptions = EmptyBag
    /\ nextRedemption = 0
    /\ notifications = EmptyBag
    /\ fooditems = [i \in Items |-> IF i = "a" THEN 500 ELSE 150]
    /\ offers \in {[i \in Items |-> 0], [i \in Items |-> IF i = "b" THEN 20 ELSE 0]}
    /\ windows = [i \in Items |-> IF offers[i] = 0 THEN NoWindow ELSE ActiveWindow]
    /\ reviews = EmptyBag
    /\ nextReview = 0
    /\ now = 0
    /\ lines \in InitCarts
    /\ nextLine = Cardinality(lines)
    /\ cart_total = SumLines(lines)
    /\ adminCalls = 0
    /\ pc = [w \in Workers |-> "idle"]
    /\ loc = [w \in Workers |-> NoLoc]
    /\ res = [w \in Workers |-> NoRes]
    /\ calls = [w \in Workers |-> 0]

Quantities == 0..MaxQty

CartStep(w) ==
    \/ \E i \in Items, q \in Quantities : AddBegin(w, i, q)
    \/ AddInsert(w)
    \/ \E id \in LineIds, q \in Quantities : UpdateBegin(w, id, q)
    \/ UpdateSave(w)
    \/ \E id \in LineIds : RemoveBegin(w, id)
    \/ RemoveDelete(w)
    \/ SigSum(w)
    \/ SigSave(w)

PlaceStep(w) ==
    \/ PlaceBegin(w)
    \/ PlaceExists(w)
    \/ PlaceCreate(w)
    \/ PlaceSetItems(w)
    \/ PlaceSave(w)
    \/ PlaceCollect(w)
    \/ PlaceDelete(w)
    \/ PlaceCartSave(w)

\* the admin enters offers that run over the whole period
AdminStep ==
    \/ \E i \in Items, p \in Percentages : OfferCreate(i, p, ActiveWindow)
    \/ \E i \in Items, p \in Percentages : OfferUpdate(i, p, ActiveWindow)
    \/ \E i \in Items : OfferDelete(i)

\* a day passes
Tick ==
    /\ now < MaxTime
    /\ now' = now + 1
    /\ UNCHANGED <<orders, nextOrder, dbLoyalty, notifications, dbCart, dbCatalog,
                   reviews, nextReview, pc, loc, res, calls>>

\* the admin enters offers with any start and end date
AdminAnyStep ==
    \/ \E i \in Items, p \in Percentages, win \in Windows : OfferCreate(i, p, win)
    \/ \E i \in Items, p \in Percentages, win \in Windows : OfferUpdate(i, p, win)
    \/ \E i \in Items : OfferDelete(i)

NextPrice == Tick \/ AdminAnyStep

\* the prices of the lines of a cart while offers are entered and time passes
SpecPrice == InitCart /\ [][NextPrice]_vars

NextLines == \E w \in Workers : CartStep(w)

\* concurrent addLine, updateLine and removeLine requests of the customer
SpecLines == InitCart /\ [][NextLines]_vars

\* offer and price changes of the admin
CatalogStep ==
    \/ AdminStep
    \/ \E i \in Items, p \in Prices : PriceChange(i, p)

NextTotal ==
    \/ PlaceStep("w1") \/ PayStep("w1") \/ CartStep("w1") \/ ReviewStep("w1")
    \/ StatusStep("w1")
    \/ (pc["w1"] = "idle" /\ CatalogStep)

\* a customer who places orders, pays, reviews and fills the cart again,
\* while orders change status and the admin changes the catalog, one
\* request at a time
SpecTotal == InitCart /\ [][NextTotal]_vars

NextCart == \E w \in Workers : CartStep(w) \/ PlaceStep(w)

\* concurrent cart and placement requests of the customer
SpecCart == InitCart /\ [][NextCart]_vars

NextCartSeq ==
    \/ CartStep("w1")
    \/ PlaceStep("w1")
    \/ (pc["w1"] = "idle" /\ AdminStep)

\* one request at a time, the admin changing offers between requests
SpecCartSeq == InitCart /\ [][NextCartSeq]_vars

(***************************************************************************)
(* Properties of the loyalty ledger and of payment confirmation.           *)
(***************************************************************************)
Idle == \A w \in Workers : pc[w] = "idle"

\* rows of the points ledger that were recorded for order o
TxCount(o) ==
    BagCardinality([r \in {x \in DOMAIN transactions : x.order = o} |-> transactions[r]])
TxPoints(o) ==
    SumBag([r \in {x \in DOMAIN transactions : x.order = o} |-> transactions[r]],
           "points_earned")

\* both workers made exactly one request, of kind op, and both have returned
BothDid(op) ==
    /\ Idle
    /\ \A w \in Workers : calls[w] = 1 /\ res[w].op = op /\ res[w].out # "crash"

\* C1: the point balance of the loyalty account is never negative, whatever
\* the interleaving of awards and redemptions.
C1_PointsNonNegative == points >= 0

\* two redemptions and an award have been applied to the account
C1_Witness ==
    /\ BagCardinality(redemptions) = 2
    /\ BagCardinality(transactions) = 2
    /\ Idle

\* C2: two concurrent redemptions that the balance can pay only one of:
\* exactly one succeeds, the other fails with InsufficientPoints, one
\* RedemptionTransaction exists and the balance dropped by the winner's cost.
C2_OneRedeemWins ==
    (/\ BothDid("redeem")
     /\ SeedPoints >= points_required(res["w1"].opt)
     /\ SeedPoints >= points_required(res["w2"].opt)
     /\ SeedPoints < points_required(res["w1"].opt) + points_required(res["w2"].opt))
    => \E win \in Workers : \E lose \in Workers \ {win} :
          /\ res[win].out = "ok"
          /\ res[lose].out = "InsufficientPoints"
          /\ BagCardinality(redemptions) = 1
          /\ points = SeedPoints - points_required(res[win].opt)

\* C3: with no request in progress the balance equals the points earned
\* minus the points redeemed: no update of the balance is lost.
C3_NoLostUpdate == Idle => points = Earned - Redeemed

\* C4: two concurrent payment confirmations of the same unpaid order, each
\* with a valid table: exactly one succeeds, the other gets AlreadyPaid.
C4_OneConfirmWins ==
    (/\ BothDid("pay")
     /\ \A w \in Workers : res[w].order = 1 /\ res[w].table \in Tables)
    => \E win \in Workers : \E lose \in Workers \ {win} :
          /\ res[win].out = "ok"
          /\ res[lose].out = "AlreadyPaid"

\* C5: points are awarded at most once per order, also when confirmPayment
\* is repeated, retried after a crash or run concurrently.
C5_AwardOncePerOrder ==
    \A o \in OrderIds :
        /\ TxCount(o) <= 1
        /\ TxPoints(o) <= orders[o].total \div 100

\* C6: award and is_paid flip are atomic: once no confirmation of the order
\* is in progress, an order that earns points is paid iff they were awarded.
C6_PaidIffAwarded ==
    \A o \in OrderIds :
        (/\ orders[o].exists
         /\ orders[o].total \div 100 > 0
         /\ \A w \in Workers : pc[w] # "idle" => loc[w].op # "pay" \/ loc[w].order # o)
        => (orders[o].is_paid <=> TxCount(o) > 0)

\* C7: a successful confirmPayment sets is_paid, attaches the table and adds
\* exactly floor(total / 100) to the balance; a failed one changes neither
\* the order nor the balance.
C7_PayContract ==
    \A w \in Workers :
        (pc[w] = "idle" /\ res[w].op = "pay") =>
            IF res[w].out = "ok"
            THEN /\ orders[res[w].order] =
                        [res[w].pre_order EXCEPT !.is_paid = TRUE, !.table = res[w].table]
                 /\ ~res[w].pre_order.is_paid
                 /\ res[w].table \in Tables
                 /\ points = res[w].pre_points + (res[w].pre_order.total \div 100)
            ELSE /\ orders[res[w].order] = res[w].pre_order
                 /\ points = res[w].pre_points
                 /\ \/ ~res[w].pre_order.exists
                    \/ res[w].pre_order.is_paid
                    \/ res[w].table \notin Tables

\* a confirmation of an order worth 2 points has succeeded
C7_Witness ==
    \E w \in Workers :
        /\ pc[w] = "idle" /\ res[w].op = "pay" /\ res[w].out = "ok"
        /\ res[w].pre_order.total = 250
        /\ points = res[w].pre_points + 2
        /\ orders[res[w].order].is_paid

(***************************************************************************)
(* Properties of order placement.                                          *)
(***************************************************************************)
\* C8: place() is atomic with respect to concurrent line changes: the order
\* it creates bills exactly the lines it removed from the cart, each at the
\* quantity it had when removed.
C8_PlaceBillsRemovedLines ==
    \A w \in Workers :
        (pc[w] = "idle" /\ res[w].op = "place" /\ res[w].out = "ok") =>
            orders[res[w].order].total = SumLines(res[w].removed)

\* C9: two place() calls on a non-empty cart with no addLine between them:
\* exactly one creates an order, the other fails with EmptyCart.
C9_PlacedOnce ==
    (/\ BothDid("place")
     /\ \E w \in Workers : res[w].pre_lines # {})
    => /\ \E win \in Workers : \E lose \in Workers \ {win} :
             /\ res[win].out = "ok"
             /\ res[lose].out = "EmptyCart"
       /\ nextOrder = 1

\* C10: a successful place() creates one unpaid PENDING order whose
\* total_price is the sum of effective unit price times quantity over the
\* cart's lines at that moment, and leaves the cart without lines.
C10_PlaceContract ==
    \A w \in Workers :
        (pc[w] = "idle" /\ res[w].op = "place" /\ res[w].out = "ok") =>
            /\ orders[res[w].order].exists
            /\ orders[res[w].order].total = res[w].pre_sum
            /\ ~orders[res[w].order].is_paid
            /\ orders[res[w].order].status = "PENDING"
            /\ res[w].pre_lines # {}
            /\ lines = {}

(***************************************************************************)
(* Properties of the cart total and of the order lines.                    *)
(***************************************************************************)
\* C11: whenever no operation on the cart is in progress, the total that
\* View cart reports is the sum of effective unit price times quantity over
\* the cart's current lines (0 after a place that emptied the cart).
C11_ViewCartTotal == Idle => ViewCart = SumLines(lines)

\* C12: the cart total follows discount changes without a line mutation:
\* when an offer is created, changed or deleted while View cart was right,
\* the next View cart gives the total at the new effective prices.
C12_TotalFollowsOffers ==
    [][(offers' # offers /\ ViewCart = SumLines(lines))
          => (ViewCart = SumLines(lines))']_vars

\* C13: the effective unit price of a cart line's item is the base price
\* less pct/100 of it iff the item has an offer with start <= now < end, and
\* the base price otherwise (before start, at or after end, no offer,
\* malformed window with end <= start).
C13_EffectivePrice ==
    \A l \in lines :
        Price(l.item) =
            IF /\ offers[l.item] # 0
               /\ windows[l.item].start <= now
               /\ now < windows[l.item].end
            THEN fooditems[l.item] - (offers[l.item] * fooditems[l.item]) \div 100
            ELSE fooditems[l.item]

\* C14: after a successful place() the order holds one line snapshot per
\* line the cart had at placement, whatever happens to the cart afterwards.
C14_OrderLinesFrozen ==
    \A w \in Workers :
        (pc[w] = "idle" /\ res[w].op = "place" /\ res[w].out = "ok") =>
            OrderSnapshots(OrderLines(res[w].order)) = OrderSnapshots(res[w].pre_lines)

(***************************************************************************)
(* Properties of redemption.                                               *)
(***************************************************************************)
\* this step is worker w receiving a redeem request
RedeemCalled(w) ==
    /\ calls'[w] = calls[w] + 1
    /\ IF pc'[w] = "idle" THEN res'[w].op = "redeem" ELSE loc'[w].op = "redeem"

\* the redemption option of the request received in this step
RedeemCalledOpt(w) == IF pc'[w] = "idle" THEN res'[w].opt ELSE loc'[w].opt

\* C18: a redeem call on a balance lower than the reward's cost fails with
\* InsufficientPoints and leaves the balance, the RedemptionTransactions
\* and the notifications unchanged.
C18_InsufficientRedeemNoWrite ==
    [][\A w \in Workers :
          (RedeemCalled(w) /\ points < points_required(RedeemCalledOpt(w)))
          => /\ pc'[w] = "idle"
             /\ res'[w].out = "InsufficientPoints"
             /\ UNCHANGED <<points, redemptions, notifications>>]_vars

\* a redeem call was refused on a balance lower than the cost
C18_Witness ==
    \E w \in Workers :
        /\ pc[w] = "idle" /\ res[w].op = "redeem"
        /\ res[w].out = "InsufficientPoints"
        /\ points < points_required(res[w].opt)
        /\ BagCardinality(redemptions) = 1

\* C19: the decrement of the balance and the PENDING RedemptionTransaction
\* of a redeem call are one atomic step: with no request in progress, also
\* after a crash, the points taken off the balance are the points of the
\* recorded RedemptionTransactions.
C19_RedeemAtomic ==
    pc["w1"] = "idle" =>
        /\ SeedPoints - points = Redeemed
        /\ \A r \in DOMAIN redemptions : r.status = "PENDING"

(***************************************************************************)
(* Properties of the order life cycle and of reviews.                      *)
(***************************************************************************)
\* C15: is_paid is monotonic: no step of any request changes the is_paid of
\* an existing order from true to false.
C15_PaidMonotonic ==
    [][\A o \in OrderIds :
          (orders[o].exists /\ orders[o].is_paid /\ orders'[o].exists)
          => orders'[o].is_paid]_vars

\* C16: the status of an order only moves forward in PENDING < READY <
\* COMPLETE < DELIVERED: every change of a stored status raises it, and no
\* request to set a lower-or-equal status is accepted.
C16_StatusForward ==
    [][/\ \A o \in OrderIds :
            (orders[o].exists /\ orders'[o].exists
                /\ orders'[o].status # orders[o].status)
            => Rank(orders'[o].status) > Rank(orders[o].status)
       /\ \A w \in Workers :
            (pc[w] # "idle" /\ pc'[w] = "idle" /\ res'[w].op = "status"
                /\ Rank(res'[w].status) <= Rank(orders[res'[w].order].status))
            => (res'[w].out = "InvalidTransition" /\ orders' = orders)]_vars

\* C17: cancel on a paid order fails with AlreadyPaid and leaves the order
\* as it was; cancel on an unpaid order deletes that order and changes no
\* other order, nor the cart, nor the balance.
C17_CancelContract ==
    \A w \in Workers :
        (/\ pc[w] = "idle" /\ res[w].op = "cancel"
         /\ res[w].pre_orders[res[w].order].exists)
        => IF res[w].pre_orders[res[w].order].is_paid
           THEN res[w].out = "AlreadyPaid" /\ orders = res[w].pre_orders
           ELSE /\ res[w].out = "ok"
                /\ ~orders[res[w].order].exists
                /\ \A o \in OrderIds \ {res[w].order} : orders[o] = res[w].pre_orders[o]
                /\ points = res[w].pre_points
                /\ lines = res[w].pre_lines
                /\ cart_total = res[w].pre_total

\* C20: every order has at most one review, also after concurrent
\* createReview calls; a createReview that succeeded left its review as
\* the only one of the order.
C20_OneReviewPerOrder ==
    /\ \A o \in OrderIds : ReviewCount(o) <= 1
    /\ \A w \in Workers :
          (pc[w] = "idle" /\ res[w].op = "review" /\ res[w].out = "ok")
          => ReviewCount(res[w].order) = 1

\* this step ends a request of worker w
Done(w) == pc'[w] = "idle" /\ (pc[w] # "idle" \/ calls'[w] # calls[w])

\* customerend/models.py 149-154 and the checks of the review views: the
\* order is paid and was last saved today
WindowOpen(o) ==
    orders[o].exists /\ orders[o].is_paid /\ orders[o].updated_at = now

\* C21: createReview on a paid order without a review succeeds on the day
\* of the order's updated_at; createReview on an unpaid order, and
\* createReview or updateReview on another day than that of updated_at,
\* fail with the closed-window error and leave the reviews unchanged
C21_ReviewWindowContract ==
    [][/\ \A w \in Workers : \A o \in OrderIds :
            (/\ Done(w)
             /\ res'[w].op \in {"review", "addreview"}
             /\ res'[w].order = o
             /\ orders[o].exists)
            => /\ (WindowOpen(o) /\ ReviewCount(o) = 0)
                  => (res'[w].out = "ok" /\ reviews' # reviews)
               /\ ~WindowOpen(o)
                  => /\ res'[w].out # "ok"
                     /\ reviews' = reviews
                     /\ ReviewCount(o) = 0
                        => res'[w].out \in {"NotPaid", "WindowClosed"}
       /\ \A w \in Workers : \A id \in ReviewIds :
            (/\ Done(w)
             /\ res'[w].op = "revupdate"
             /\ res'[w].id = id
             /\ HasReview(id)
             /\ orders[ReviewOf(id).order].updated_at # now)
            => (res'[w].out = "WindowClosed" /\ reviews' = reviews)]_vars

\* the day on which the paid order o was last saved has ended
WindowClosed(o) ==
    orders[o].exists /\ orders[o].is_paid /\ orders[o].updated_at < now

\* the reviews of order o
ReviewsOf(o) == [r \in {x \in DOMAIN reviews : x.order = o} |-> reviews[r]]

\* C27: the review window of a paid order never reopens: once its day has
\* ended the window stays closed whatever is done to the order, and no
\* review of the order is created or changed any more
C27_WindowNeverReopens ==
    [][\A o \in OrderIds :
          WindowClosed(o)
          => /\ orders'[o].exists => WindowClosed(o)'
             /\ ReviewsOf(o)' = ReviewsOf(o)]_vars

(***************************************************************************)
(* Properties of the cart lines.                                           *)
(***************************************************************************)
\* this step is worker w receiving an addLine request that it refuses
\* or answers at once
AddRefused(w) ==
    /\ calls'[w] = calls[w] + 1
    /\ pc'[w] = "idle"
    /\ res'[w].op = "add"

\* this step is worker w receiving an addLine request that goes on
AddAccepted(w) ==
    /\ calls'[w] = calls[w] + 1
    /\ pc'[w] # "idle"
    /\ loc'[w].op = "add"

\* C22: a cart never holds two lines of the same item, also after
\* concurrent addLine calls; an addLine for an item that is in the cart
\* fails with DuplicateLine and changes neither the lines nor the total.
C22_OneLinePerItem ==
    [][/\ \A l1 \in lines' : \A l2 \in lines' : l1.item = l2.item => l1 = l2
       /\ \A w \in Workers :
            /\ AddAccepted(w) => ~\E l \in lines : l.item = loc'[w].item
            /\ (AddRefused(w) /\ \E l \in lines : l.item = res'[w].item)
                  => /\ res'[w].out = "DuplicateLine"
                     /\ lines' = lines
                     /\ cart_total' = cart_total]_vars

\* an addLine for an item of the cart was refused after both workers had
\* added lines
C22_Witness ==
    /\ Cardinality(lines) = 2
    /\ \E w \in Workers :
          /\ pc[w] = "idle" /\ res[w].op = "add" /\ res[w].out = "DuplicateLine"
          /\ \E l \in lines : l.item = res[w].item

\* C23: place() on a cart without lines fails with EmptyCart before any
\* mutation: the request creates no order and changes neither the cart and
\* its total nor any order.
C23_EmptyCartNoWrite ==
    [][\A w \in Workers :
          /\ (pc[w] = "idle" /\ pc'[w] = "pl_exists")
                => UNCHANGED <<orders, nextOrder, lines, nextLine, cart_total>>
          /\ (pc[w] = "pl_exists" /\ pc'[w] # "pl_exists" /\ lines = {})
                => /\ pc'[w] = "idle"
                   /\ res'[w].op = "place" /\ res'[w].out = "EmptyCart"
                   /\ res'[w].order = 0
                   /\ UNCHANGED <<orders, nextOrder, lines, nextLine, cart_total>>]_vars

\* a place() was refused on an empty cart after an earlier place() had
\* created an order
C23_Witness ==
    /\ nextOrder = 1
    /\ lines = {}
    /\ \E w \in Workers :
          pc[w] = "idle" /\ res[w].op = "place" /\ res[w].out = "EmptyCart"

CompleteCount(o) ==
    BagCardinality([r \in {x \in DOMAIN notifications :
                              x.kind = "order_complete" /\ x.order = o}
                    |-> notifications[r]])

\* C30: an OrderCompleted notification is created only when a status
\* change brings the order to COMPLETE from another status, so an order
\* never has more than one of them, and none while it has never been
\* brought to COMPLETE.
C30_OneCompleteNotification ==
    \A o \in OrderIds : CompleteCount(o) <= 1

\* C28: the total_price of an order is fixed at placement: no step of any
\* later request (payment, status change, review, cart change, another
\* place(), offer or price change) changes the total of an existing order.
C28_TotalFixed ==
    [][\A o \in OrderIds :
          (orders[o].exists /\ orders'[o].exists)
          => orders'[o].total = orders[o].total]_vars

\* an order was placed and paid, and the price of an item changed
C28_Witness ==
    /\ \E o \in OrderIds : orders[o].exists /\ orders[o].is_paid /\ orders[o].total > 0
    /\ \E i \in Items : fooditems[i] # (IF i = "a" THEN 500 ELSE 150)

\* C26: a cancel and a confirmPayment of the same unpaid order, in any
\* interleaving, end in one of two ways: the cancel succeeded, the order is
\* gone, the payment failed and no points were awarded; or the payment
\* succeeded, the order exists and is paid with its points awarded, and the
\* cancel failed.
C26_CancelOrPay ==
    \A c \in Workers : \A p \in Workers \ {c} :
        (/\ Idle
         /\ calls[c] = 1 /\ res[c].op = "cancel"
         /\ calls[p] = 1 /\ res[p].op = "pay"
         /\ res[c].order = 1 /\ res[p].order = 1)
        => \/ /\ res[c].out = "ok"
              /\ ~orders[1].exists
              /\ res[p].out # "ok"
              /\ TxCount(1) = 0
           \/ /\ res[p].out = "ok"
              /\ orders[1].exists /\ orders[1].is_paid
              /\ TxPoints(1) = orders[1].total \div 100
              /\ res[c].out # "ok"

(***************************************************************************)
(* Properties of the delivery and deletion of RedemptionTransactions.      *)
(***************************************************************************)
\* the stored status of the RedemptionTransaction id, "none" when no row
StatusOf(id) ==
    IF \E r \in DOMAIN redemptions : r.id = id
    THEN (CHOOSE r \in DOMAIN redemptions : r.id = id).status
    ELSE "none"

C25_DeleteOnlyDelivered ==
    [][/\ \A id \in RedemptionIds :
            (StatusOf(id) # "none" /\ StatusOf(id)' = "none")
            => StatusOf(id) = "DELIVERED"
       /\ \A w \in Workers : \A id \in RedemptionIds :
            (/\ calls'[w] = calls[w] + 1
             /\ (IF pc'[w] = "idle" THEN res'[w] ELSE loc'[w]).op = "redel"
             /\ (IF pc'[w] = "idle" THEN res'[w] ELSE loc'[w]).id = id
             /\ StatusOf(id) = "PENDING")
            => /\ pc'[w] = "idle"
               /\ res'[w].out = "NotDelivered"
               /\ redemptions' = redemptions
       /\ \A w \in Workers :
            (pc[w] = "redel_delete" /\ pc'[w] = "idle") => points' = points]_vars

\* a transaction was redeemed, delivered and then deleted
C25_Witness ==
    \E d \in Workers :
        /\ pc[d] = "idle" /\ res[d].op = "redel" /\ res[d].out = "ok"
        /\ StatusOf(res[d].id) = "none"
        /\ nextRedemption = 1
        /\ points = SeedPoints - Redeemed - 20

====
